---- MODULE Spec2Model ----
(***************************************************************************)
(* A model of astropy/modeling/fitting.py: the Fitter base class with its  *)
(* constraint validation and its fitpars property, the three fitters built *)
(* on it (LinearLSQFitter, NonLinearLSQFitter, SLSQPFitter) and the        *)
(* JointFitter.                                                            *)
(*                                                                         *)
(* A model parameter is named by its position in model.param_names and     *)
(* holds one number.  The external solvers (numpy.linalg.lstsq,            *)
(* scipy.optimize.leastsq, scipy.optimize.fmin_slsqp) are black boxes:     *)
(* every vector they may hand to errorfunc or return is a choice over      *)
(* Vals.  Weights only scale the residuals the solvers see and are not     *)
(* part of the state.                                                      *)
(***************************************************************************)
EXTENDS Integers, Sequences, FiniteSets, TLC

\* Number of parameters of a model.
NumParams == 2

\* Largest number of models handed to a JointFitter.
MaxModels == 3

Params == 1..NumParams

\* The default entry of constraints.bounds, (-1E12, 1E12), scaled to the
\* integers of the model; no value of Vals comes near it.
Unbounded == <<-1000000000, 1000000000>>

\* The one (low, high) pair a caller sets on a parameter in this model.
Bounded == <<1, 2>>

BoundChoices == {Unbounded, Bounded}

\* The values a solver proposes for a parameter: one below low, one inside
\* [low, high] and one above high.
Vals == {Bounded[1] - 1, Bounded[1], Bounded[2] + 1}

\* The values the model's parameters hold when the fitter is built: the
\* first above high, the second inside [low, high], the others below low.
InitialValue(i) ==
    CASE i = 1 -> Bounded[2] + 1
      [] i = 2 -> Bounded[1]
      [] OTHER -> Bounded[1] - 1

Kinds == {"LinearLSQFitter", "NonLinearLSQFitter", "SLSQPFitter"}

Iterative == {"NonLinearLSQFitter", "SLSQPFitter"}

\* supported constraints
constraintsdef ==
    [k \in Kinds |->
        CASE k = "NonLinearLSQFitter" -> {"fixed", "tied", "bounds"}
          [] k = "SLSQPFitter" -> {"bounds", "eqcons", "ineqcons", "fixed", "tied"}
          [] k = "LinearLSQFitter" -> {"fixed"}]

VARIABLES
    parameters,   \* model._parameters
    fixed,        \* model.constraints.fixed
    tied,         \* model.constraints.tied (TRUE: a tie is set)
    bounds,       \* model.constraints.bounds
    eqcons,       \* model.constraints.eqcons is not empty
    ineqcons,     \* model.constraints.ineqcons is not empty
    linear,       \* model.linear
    param_dim,    \* model._parameters.param_dim
    n_inputs,     \* model.n_inputs
    domain,       \* model.domain (x_domain for two inputs): "absent", "None", "set"
    kind,         \* class of the fitter, "none" before construction
    state,        \* "absent", "failed" (constructor raised), "ready", "solving"
    fitpars_,     \* Fitter._fitpars
    fit_info,     \* the fitter's fit_info
    raised,       \* exception raised by the last operation, "none" if it returned
    warned,       \* number of warnings the last operation emitted
    lastop,       \* the last operation
    io,           \* vector the last operation was handed or returned
    inputs,       \* the data the last operation was handed, NoData if none
    solver,       \* the call of the last operation has invoked its solver
    jac,          \* the matrix the last evaluation of dfunc returned
    jmodels,      \* JointFitter.models: records of parameters, joint, n_inputs
    jkeys,        \* the models that are keys of jointparameters, with their names
    initvals,     \* JointFitter.initvals
    jfitpars,     \* JointFitter.fitpars
    jstate,       \* "absent", "failed", "ready"
    jraised,      \* exception raised by the last JointFitter operation
    jop,          \* the last JointFitter operation
    jargs         \* number of positional arguments of the last JointFitter call

modelvars == <<parameters, fixed, tied, bounds, eqcons, ineqcons, linear,
               param_dim, n_inputs, domain>>

consvars == <<fixed, tied, bounds, eqcons, ineqcons>>

fittervars == <<kind, state, fitpars_, fit_info, raised, warned, lastop, io,
                inputs, solver, jac>>

jointvars == <<jmodels, jkeys, initvals, jfitpars, jstate, jraised, jop, jargs>>

vars == <<modelvars, fittervars, jointvars>>

----------------------------------------------------------------------------
(* Constraint categories that are active on the model *)

AnyFixed == \E i \in Params : fixed[i]

AnyTied == \E i \in Params : tied[i]

AnyFixedOrTied == AnyFixed \/ AnyTied

AnyBounds == \E i \in Params : bounds[i] /= Unbounded

\* The first check of _validate_constraints that fails, "none" if all pass.
ValidateConstraints(k) ==
    LET c == constraintsdef[k] IN
    IF AnyFixed /\ "fixed" \notin c THEN "ValueError"
    ELSE IF AnyTied /\ "tied" \notin c THEN "ValueError"
    ELSE IF AnyBounds /\ "bounds" \notin c THEN "ValueError"
    ELSE IF eqcons /\ "eqcons" \notin c THEN "ValueError"
    ELSE IF ineqcons /\ "ineqcons" \notin c THEN "ValueError"
    ELSE "none"

----------------------------------------------------------------------------
(* model.constraints.fitpars: the reduced vector and its write-back *)

\* Positions of the parameters that are neither fixed nor tied, in the
\* model's declared order.
FreeSeq ==
    LET F[i \in 0..NumParams] ==
            IF i = 0 THEN <<>>
            ELSE IF fixed[i] \/ tied[i] THEN F[i - 1]
            ELSE Append(F[i - 1], i)
    IN F[NumParams]

\* constraints.fitpars (getter)
ToReduced(full) == [j \in 1..Len(FreeSeq) |-> full[FreeSeq[j]]]

\* Scatter the leading entries of fps into the free positions of full.
Scatter(full, fps) ==
    [i \in Params |->
        IF fixed[i] \/ tied[i] THEN full[i]
        ELSE fps[CHOOSE j \in 1..Len(FreeSeq) : FreeSeq[j] = i]]

\* constraints.fitpars (setter): the outcomes, each telling whether the
\* vector was accepted and the parameters the model holds afterwards.  A
\* vector of the reduced length is scattered into the free positions.  For
\* any other length the result is not defined: the vector is rejected, or
\* its leading entries are scattered when there are enough of them.
FromReduced(full, fps) ==
    IF Len(fps) = Len(FreeSeq) THEN {[ok |-> TRUE, pars |-> Scatter(full, fps)]}
    ELSE {[ok |-> FALSE, pars |-> full]} \cup
         (IF Len(fps) > Len(FreeSeq)
             THEN {[ok |-> TRUE, pars |-> Scatter(full, fps)]}
             ELSE {})

----------------------------------------------------------------------------
(* Fitter.fitpars *)

\* The getter testing the fixed flags alone.
FitparsGetFixedOnly ==
    IF AnyFixed THEN ToReduced(parameters) ELSE parameters

\* Fitter.fitpars (getter)
FitparsGet ==
    IF AnyFixedOrTied THEN ToReduced(parameters) ELSE parameters

\* One setattr pair of NonLinearLSQFitter._set_bounds: the second setattr
\* overwrites the value the first one stored.
ClampOne(par, b) ==
    LET first == IF par > b[1] THEN par ELSE b[1]
        second == IF par < b[2] THEN par ELSE b[2]
    IN second

\* _set_bounds of each fitter class: the exception raised ("none" if it
\* returned) and the model's parameters afterwards.
SetBounds(k, fps) ==
    CASE k = "NonLinearLSQFitter" ->
            [err |-> "none",
             pars |-> [i \in Params |-> ClampOne(fps[i], bounds[i])]]
      [] k = "SLSQPFitter" -> [err |-> "none", pars |-> parameters]
      [] OTHER -> [err |-> "NotImplementedError", pars |-> parameters]

\* The setter testing the tied flags alone before it delegates to the
\* constraints: with fixed parameters only it assigns model.parameters.
FitparsSetTiedOnly(k, fps) ==
    IF AnyTied THEN
        {IF r.ok
            THEN [err |-> "none", pars |-> r.pars, fp |-> ToReduced(r.pars)]
            ELSE [err |-> "ValueError", pars |-> parameters, fp |-> fitpars_]
         : r \in FromReduced(parameters, fps)}
    ELSE IF Len(fps) = NumParams THEN {[err |-> "none", pars |-> fps, fp |-> fps]}
    ELSE {[err |-> "ValueError", pars |-> parameters, fp |-> fitpars_]}

\* Fitter.fitpars (setter): the set of outcomes, each the exception raised
\* ("none" if it returned), the model's parameters and the fitter's
\* _fitpars afterwards.
FitparsSet(k, fps) ==
    IF AnyFixedOrTied THEN
        {IF r.ok
            THEN [err |-> "none", pars |-> r.pars, fp |-> ToReduced(r.pars)]
            ELSE [err |-> "ValueError", pars |-> parameters, fp |-> fitpars_]
         : r \in FromReduced(parameters, fps)}
    ELSE IF AnyBounds THEN
        {[err |-> SetBounds(k, fps).err, pars |-> SetBounds(k, fps).pars,
          fp |-> fitpars_]}
    ELSE {[err |-> "none", pars |-> fps, fp |-> fps]}

----------------------------------------------------------------------------
(* Fitter._wrap_deriv *)

\* The names whose flag is set, in the order of param_names.
NamesWhere(flag) ==
    LET F[i \in 0..NumParams] ==
            IF i = 0 THEN <<>>
            ELSE IF flag[i] THEN Append(F[i - 1], i)
            ELSE F[i - 1]
    IN F[NumParams]

\* fixed_and_tied: the fixed names, extended by the tied names.  The order
\* within each part does not change what is left of ind.
FixedAndTied == NamesWhere(fixed) \o NamesWhere(tied)

\* model.constraints.modelpars: the model's current full parameter vector
ModelPars == parameters

\* model.deriv(pars, x, y): the full Jacobian, one column per parameter,
\* each evaluated at pars.
FullDeriv(pars) == [i \in Params |-> [col |-> i, at |-> pars]]

\* The loop of ind.remove(index): list.remove raises ValueError for an
\* index that is no longer in the list.
RECURSIVE RemoveAll(_, _)
RemoveAll(ind, names) ==
    IF names = <<>> THEN [err |-> "none", ind |-> ind]
    ELSE IF \A j \in 1..Len(ind) : ind[j] /= Head(names)
        THEN [err |-> "ValueError", ind |-> ind]
    ELSE RemoveAll(SelectSeq(ind, LAMBDA e : e /= Head(names)), Tail(names))

\* Fitter._wrap_deriv(p, x, y, z): the exception raised ("none" if it
\* returned) and the matrix returned.
WrapDeriv(p) ==
    IF FixedAndTied /= <<>> THEN
        LET fullderiv == FullDeriv(ModelPars)
            r == RemoveAll([i \in Params |-> i], FixedAndTied)
        IN [err |-> r.err,
            jac |-> IF r.err = "none"
                       THEN [j \in 1..Len(r.ind) |-> fullderiv[r.ind[j]]]
                       ELSE <<>>]
    ELSE [err |-> "none", jac |-> FullDeriv(p)]

----------------------------------------------------------------------------
(* Initial states *)

\* The value of inputs after an operation that is handed no data.
NoData == [z |-> FALSE, shapeOK |-> TRUE, nsets |-> 0]

NoJoint ==
    /\ jmodels = <<>>
    /\ jkeys = <<>>
    /\ initvals = <<>>
    /\ jfitpars = <<>>
    /\ jstate = "absent"
    /\ jraised = "none"
    /\ jop = "none"
    /\ jargs = 0

NoFitter ==
    /\ kind = "none"
    /\ state = "absent"
    /\ fitpars_ = <<>>
    /\ fit_info = "None"
    /\ raised = "none"
    /\ warned = 0
    /\ lastop = "none"
    /\ io = <<>>
    /\ inputs = NoData
    /\ solver = FALSE
    /\ jac = <<>>

\* A model with any constraints and attributes, and no fitter yet.
InitAny ==
    /\ parameters = [i \in Params |-> InitialValue(i)]
    /\ fixed \in [Params -> BOOLEAN]
    /\ tied \in [Params -> BOOLEAN]
    /\ bounds \in [Params -> BoundChoices]
    /\ eqcons \in BOOLEAN
    /\ ineqcons \in BOOLEAN
    /\ linear \in BOOLEAN
    /\ param_dim \in 1..2
    /\ n_inputs \in 1..2
    /\ domain \in {"absent", "None"}
    /\ NoFitter
    /\ NoJoint

\* A linear one-input model (every fitter accepts it) with one parameter
\* set and any fixed, tied and bounds.
Init ==
    /\ parameters = [i \in Params |-> InitialValue(i)]
    /\ fixed \in [Params -> BOOLEAN]
    /\ tied \in [Params -> BOOLEAN]
    /\ bounds \in [Params -> BoundChoices]
    /\ eqcons = FALSE
    /\ ineqcons = FALSE
    /\ linear = TRUE
    /\ param_dim = 1
    /\ n_inputs = 1
    /\ domain = "None"
    /\ NoFitter
    /\ NoJoint

\* A linear model with any number of parameter sets and of inputs, with
\* or without a domain that is still None, and any fixed parameters.
InitShapes ==
    /\ parameters = [i \in Params |-> InitialValue(i)]
    /\ fixed \in [Params -> BOOLEAN]
    /\ tied = [i \in Params |-> FALSE]
    /\ bounds = [i \in Params |-> Unbounded]
    /\ eqcons = FALSE
    /\ ineqcons = FALSE
    /\ linear = TRUE
    /\ param_dim \in 1..2
    /\ n_inputs \in 1..2
    /\ domain \in {"absent", "None"}
    /\ NoFitter
    /\ NoJoint

----------------------------------------------------------------------------
(* Construction *)

\* A constructor that never looks at model.linear.
InitErrorNoLinearity(k) == ValidateConstraints(k)

\* The exception a constructor raises, "none" if it returns.
InitError(k) ==
    IF ValidateConstraints(k) /= "none" THEN ValidateConstraints(k)
    ELSE IF k = "LinearLSQFitter" /\ ~linear THEN "ModelLinearityError"
    ELSE "none"

\* LinearLSQFitter(model), NonLinearLSQFitter(model), SLSQPFitter(model)
Construct(k) ==
    /\ state = "absent"
    /\ kind' = k
    /\ lastop' = "construct"
    /\ io' = <<>>
    /\ inputs' = NoData
    /\ solver' = FALSE
    /\ jac' = <<>>
    /\ raised' = InitError(k)
    /\ fit_info' = "None"
    /\ IF InitError(k) /= "none"
          THEN /\ state' = "failed"
               /\ warned' = 0
               /\ fitpars_' = <<>>
          ELSE /\ state' = "ready"
               /\ warned' = IF k \in Iterative /\ linear THEN 1 ELSE 0
               /\ fitpars_' = FitparsGet
    /\ UNCHANGED <<modelvars, jointvars>>

----------------------------------------------------------------------------
(* The fitpars property used directly *)

\* fitter.fitpars
GetFitpars ==
    /\ state = "ready"
    /\ lastop' = "get"
    /\ io' = FitparsGet
    /\ inputs' = NoData
    /\ solver' = FALSE
    /\ jac' = <<>>
    /\ raised' = "none"
    /\ warned' = 0
    /\ UNCHANGED <<modelvars, jointvars, kind, state, fitpars_, fit_info>>

\* fitter.fitpars = fps, for a vector of the length the getter returns
SetFitpars(fps) ==
    /\ state = "ready"
    /\ Len(fps) = Len(FitparsGet)
    /\ \E o \in FitparsSet(kind, fps) :
          /\ parameters' = o.pars
          /\ fitpars_' = o.fp
          /\ raised' = o.err
    /\ lastop' = "set"
    /\ io' = fps
    /\ inputs' = NoData
    /\ solver' = FALSE
    /\ jac' = <<>>
    /\ warned' = 0
    /\ UNCHANGED <<consvars, linear, param_dim, n_inputs, domain, jointvars,
                   kind, state, fit_info>>

----------------------------------------------------------------------------
(* LinearLSQFitter.__call__ *)

\* The data of a fit call: whether z is given, whether the shapes of the
\* arrays agree, and the number of data sets (0: a one-dimensional target).
LinearInputs == [z : BOOLEAN, shapeOK : BOOLEAN, nsets : 0..2]

\* The precondition that fails before the design matrix is built.
LinearPre(inp) ==
    IF n_inputs = 2 /\ ~inp.z THEN "ValueError"
    ELSE IF ~inp.shapeOK THEN "ValueError"
    ELSE IF ~inp.z /\ inp.nsets >= 1 /\ inp.nsets /= param_dim
        THEN "AssertionError"
    ELSE "none"

\* _map_domain_window: a domain that is None is set from the data.
MapDomainWindow(inp) ==
    IF domain = "None" /\ (inp.z <=> n_inputs = 2) THEN "set" ELSE domain

\* Columns of the design matrix: _deriv_with_constraints drops the fixed ones.
NumColumns == NumParams - Cardinality({i \in Params : fixed[i]})

\* model._order, the number of coefficients the model expects
Order == NumParams

\* The ranks the solver may report for a matrix of n columns.
Ranks(n) == {r \in {n - 1, n} : r >= 0}

\* LinearLSQFitter.__call__(x, y, z): lstsq returns lacoef and rank.
LinearLSQFitterCall(inp) ==
    /\ state = "ready"
    /\ kind = "LinearLSQFitter"
    /\ lastop' = "call"
    /\ inputs' = inp
    /\ jac' = <<>>
    /\ IF LinearPre(inp) /= "none" THEN
            /\ raised' = LinearPre(inp)
            /\ warned' = 0
            /\ io' = <<>>
            /\ solver' = FALSE
            /\ UNCHANGED <<parameters, param_dim, domain, fitpars_, fit_info>>
       ELSE IF inp.nsets = 0 /\ param_dim > 1 THEN
            /\ raised' = "ValueError"
            /\ warned' = 0
            /\ io' = <<>>
            /\ solver' = FALSE
            /\ domain' = MapDomainWindow(inp)
            /\ UNCHANGED <<parameters, param_dim, fitpars_, fit_info>>
       ELSE \E lacoef \in [1..NumColumns -> Vals], rank \in Ranks(NumColumns) :
            /\ solver' = TRUE
            /\ domain' = MapDomainWindow(inp)
            /\ fit_info' = [rank |-> rank]
            /\ param_dim' = IF inp.nsets >= 1 THEN inp.nsets ELSE param_dim
            /\ warned' = IF rank /= Order THEN 1 ELSE 0
            /\ io' = lacoef
            /\ \E o \in FitparsSet(kind, lacoef) :
                  /\ parameters' = o.pars
                  /\ fitpars_' = o.fp
                  /\ raised' = o.err
    /\ UNCHANGED <<consvars, linear, n_inputs, jointvars, kind, state>>

LinearCall == \E inp \in LinearInputs : LinearLSQFitterCall(inp)

----------------------------------------------------------------------------
(* NonLinearLSQFitter.__call__ and SLSQPFitter.__call__ *)

IterInputs == [z : BOOLEAN, shapeOK : BOOLEAN]

\* The initial vector handed to the solver: self.fitpars for leastsq,
\* model._parameters[:] for fmin_slsqp.
X0(k) == IF k = "SLSQPFitter" THEN parameters ELSE FitparsGet

\* The bounds list SLSQPFitter.__call__ hands to fmin_slsqp: the bounds of
\* every name of param_names.
SolverBounds == [i \in Params |-> bounds[i]]

\* Entry of the call up to the invocation of the solver.
CallStart(inp) ==
    /\ state = "ready"
    /\ kind \in Iterative
    /\ lastop' = "start"
    /\ warned' = 0
    /\ inputs' = [z |-> inp.z, shapeOK |-> inp.shapeOK, nsets |-> 0]
    /\ jac' = <<>>
    /\ IF param_dim /= 1 \/ ~inp.shapeOK
          THEN /\ raised' = "ValueError"
               /\ io' = <<>>
               /\ state' = "ready"
               /\ solver' = FALSE
          ELSE /\ raised' = "none"
               /\ io' = X0(kind)
               /\ state' = "solving"
               /\ solver' = TRUE
    /\ UNCHANGED <<modelvars, jointvars, kind, fitpars_, fit_info>>

\* errorfunc(fps, *args): one evaluation by the solver.  An exception of the
\* setter ends the call.
Evaluate(fps) ==
    /\ state = "solving"
    /\ Len(fps) = Len(X0(kind))
    /\ \E o \in FitparsSet(kind, fps) :
          /\ parameters' = o.pars
          /\ fitpars_' = o.fp
          /\ raised' = o.err
          /\ state' = IF o.err = "none" THEN "solving" ELSE "ready"
    /\ lastop' = "eval"
    /\ io' = fps
    /\ inputs' = NoData
    /\ solver' = TRUE
    /\ jac' = <<>>
    /\ warned' = 0
    /\ UNCHANGED <<consvars, linear, param_dim, n_inputs, domain, jointvars,
                   kind, fit_info>>

\* dfunc(p, *args) of a model that has a deriv: one evaluation of the
\* Jacobian by leastsq, which asks for it at the point p where it has just
\* evaluated errorfunc.  An exception ends the call.
Deriv(p) ==
    /\ state = "solving"
    /\ kind = "NonLinearLSQFitter"
    /\ lastop = "eval"
    /\ p = io
    /\ lastop' = "deriv"
    /\ io' = p
    /\ inputs' = NoData
    /\ solver' = TRUE
    /\ jac' = WrapDeriv(p).jac
    /\ raised' = WrapDeriv(p).err
    /\ state' = IF WrapDeriv(p).err = "none" THEN "solving" ELSE "ready"
    /\ warned' = 0
    /\ UNCHANGED <<modelvars, jointvars, kind, fitpars_, fit_info>>

\* The solver returns fps: it is written back and fit_info is filled.
Finish(fps) ==
    /\ state = "solving"
    /\ Len(fps) = Len(X0(kind))
    /\ \E o \in FitparsSet(kind, fps) :
          /\ parameters' = o.pars
          /\ fitpars_' = o.fp
          /\ raised' = o.err
          /\ fit_info' = IF o.err = "none" THEN "solver" ELSE fit_info
    /\ state' = "ready"
    /\ lastop' = "finish"
    /\ io' = fps
    /\ inputs' = NoData
    /\ solver' = TRUE
    /\ jac' = <<>>
    /\ warned' = 0
    /\ UNCHANGED <<consvars, linear, param_dim, n_inputs, domain, jointvars,
                   kind>>

----------------------------------------------------------------------------
(* The caller changes the model's constraints between two operations *)

Touch ==
    /\ state = "ready"
    /\ lastop \in {"construct", "change"}
    /\ lastop' = "change"
    /\ io' = <<>>
    /\ inputs' = NoData
    /\ solver' = FALSE
    /\ jac' = <<>>
    /\ raised' = "none"
    /\ warned' = 0
    /\ UNCHANGED <<parameters, linear, param_dim, n_inputs, domain, jointvars,
                   kind, state, fitpars_, fit_info>>

ChangeFixed(i) ==
    /\ Touch
    /\ fixed' = [fixed EXCEPT ![i] = ~fixed[i]]
    /\ UNCHANGED <<tied, bounds, eqcons, ineqcons>>

ChangeTied(i) ==
    /\ Touch
    /\ tied' = [tied EXCEPT ![i] = ~tied[i]]
    /\ UNCHANGED <<fixed, bounds, eqcons, ineqcons>>

ChangeBounds(i) ==
    /\ Touch
    /\ bounds' = [bounds EXCEPT
                     ![i] = IF bounds[i] = Unbounded THEN Bounded ELSE Unbounded]
    /\ UNCHANGED <<fixed, tied, eqcons, ineqcons>>

ChangeEqcons ==
    /\ Touch
    /\ eqcons' = ~eqcons
    /\ UNCHANGED <<fixed, tied, bounds, ineqcons>>

ChangeIneqcons ==
    /\ Touch
    /\ ineqcons' = ~ineqcons
    /\ UNCHANGED <<fixed, tied, bounds, eqcons>>

----------------------------------------------------------------------------
(* JointFitter *)

\* The values the solver returns for an entry of the flat vector.
JVals == {0, 1}

\* The initial values of the joint parameters a caller passes.
InitValsChoices == {<<0>>, <<0, 1>>}

\* Lists of joint parameter names (positions in param_names), no name twice.
JointLists ==
    {<<i>> : i \in Params} \cup
    {<<q[1], q[2]>> : q \in {r \in Params \X Params : r[1] /= r[2]}}

Min(a, b) == IF a < b THEN a ELSE b

\* s[:n] and s[n:] of a list
Take(s, n) == SubSeq(s, 1, Min(n, Len(s)))

Drop(s, n) == SubSeq(s, Min(n, Len(s)) + 1, Len(s))

\* del pars[sl] for the slice of one parameter: a slice past the end of
\* the list deletes nothing.
DelAt(pars, p) ==
    IF p \in 1..Len(pars)
        THEN SubSeq(pars, 1, p - 1) \o SubSeq(pars, p + 1, Len(pars))
        ELSE pars

\* The loop over model.joint in _model_to_fit_pars: each slice is taken
\* from the full vector and applied to the list as it is by then.
RECURSIVE DelJoint(_, _)
DelJoint(pars, joint) ==
    IF joint = <<>> THEN pars
    ELSE DelJoint(DelAt(pars, Head(joint)), Tail(joint))

\* JointFitter._model_to_fit_pars
RECURSIVE ModelsToFitPars(_, _)
ModelsToFitPars(models, m) ==
    IF m > Len(models) THEN <<>>
    ELSE DelJoint(models[m].parameters, models[m].joint)
            \o ModelsToFitPars(models, m + 1)

ModelToFitPars(models, ivals) == ivals \o ModelsToFitPars(models, 1)

\* JointFitter._verify_input
VerifyInput ==
    /\ Len(jmodels) > 1
    /\ Cardinality(DOMAIN jkeys) >= 2
    /\ \A j \in DOMAIN jkeys : Len(jkeys[j]) = Len(initvals)

\* JointFitter(models, jointparameters, initvals)
JointConstruct ==
    /\ jstate = "absent"
    /\ jop' = "construct"
    /\ IF VerifyInput
          THEN LET joined == [m \in DOMAIN jmodels |->
                                IF m \in DOMAIN jkeys
                                    THEN [jmodels[m] EXCEPT !.joint = jkeys[m]]
                                    ELSE jmodels[m]]
               IN /\ jmodels' = joined
                  /\ jfitpars' = ModelToFitPars(joined, initvals)
                  /\ jstate' = "ready"
                  /\ jraised' = "none"
          ELSE /\ jstate' = "failed"
               /\ jraised' = "AssertionError"
               /\ UNCHANGED <<jmodels, jfitpars>>
    /\ UNCHANGED <<modelvars, fittervars, jkeys, initvals, jargs>>

\* reduce(lambda x, y: x + 1 + y + 1, self.modeldims)
RECURSIVE Reduce(_, _, _)
Reduce(dims, acc, j) ==
    IF j > Len(dims) THEN acc ELSE Reduce(dims, acc + 1 + dims[j] + 1, j + 1)

ReduceModelDims ==
    LET modeldims == [m \in DOMAIN jmodels |-> jmodels[m].n_inputs]
    IN Reduce(modeldims, modeldims[1], 2)

\* model.joint.index(pname)
Index(joint, pname) == CHOOSE k \in 1..Len(joint) :
    joint[k] = pname /\ \A h \in 1..(k - 1) : joint[h] /= pname

\* The loop over model.param_names that recreates the model parameters from
\* the joint values and the model's own segment mfpars.
RECURSIVE MPars(_, _, _, _)
MPars(mdl, jointfitpars, mfpars, i) ==
    IF i > Len(mdl.parameters) THEN <<>>
    ELSE IF \E k \in 1..Len(mdl.joint) : mdl.joint[k] = i
        THEN <<jointfitpars[Index(mdl.joint, i)]>>
                \o MPars(mdl, jointfitpars, mfpars, i + 1)
        ELSE Take(mfpars, 1) \o MPars(mdl, jointfitpars, Drop(mfpars, 1), i + 1)

\* The number of entries of the flat vector a model takes.
NumFp(mdl) == Len(mdl.parameters) - Len(mdl.joint)

\* The loop over self.models in __call__: every model takes its segment
\* from the front of what is left of the flat vector.
RECURSIVE FitModels(_, _, _, _)
FitModels(models, jointfitpars, fpars, m) ==
    IF m > Len(models) THEN <<>>
    ELSE <<[models[m] EXCEPT
              !.parameters = MPars(models[m], jointfitpars,
                                   Take(fpars, NumFp(models[m])), 1)]>>
            \o FitModels(models, jointfitpars, Drop(fpars, NumFp(models[m])),
                         m + 1)

\* JointFitter.__call__(*args) with nargs positional arguments; leastsq
\* returns the flat vector fps.
JointFitterCall(nargs) ==
    /\ jstate \in {"ready", "fitted"}
    /\ jop' = "call"
    /\ jargs' = nargs
    /\ IF nargs /= ReduceModelDims
          THEN /\ jraised' = "AssertionError"
               /\ UNCHANGED <<jmodels, jfitpars, jstate>>
          ELSE \E fps \in [1..Len(jfitpars) -> JVals] :
               /\ jraised' = "none"
               /\ jfitpars' = fps
               /\ jmodels' = FitModels(jmodels, Take(fps, Len(initvals)),
                                       Drop(fps, Len(initvals)), 1)
               /\ jstate' = "fitted"
    /\ UNCHANGED <<modelvars, fittervars, jkeys, initvals>>

\* The arguments every model needs: its inputs and its measured data.
SumArgs ==
    LET S[m \in 0..Len(jmodels)] ==
            IF m = 0 THEN 0 ELSE S[m - 1] + jmodels[m].n_inputs + 1
    IN S[Len(jmodels)]

JointCall == \E nargs \in (SumArgs - 1)..(SumArgs + MaxModels) : JointFitterCall(nargs)

\* Between one and MaxModels models with their own parameter values, any
\* joint parameter names for any of them, and no fitter of either kind.
InitJoint ==
    /\ parameters = [i \in Params |-> InitialValue(i)]
    /\ fixed = [i \in Params |-> FALSE]
    /\ tied = [i \in Params |-> FALSE]
    /\ bounds = [i \in Params |-> Unbounded]
    /\ eqcons = FALSE
    /\ ineqcons = FALSE
    /\ linear = TRUE
    /\ param_dim = 1
    /\ n_inputs = 1
    /\ domain = "None"
    /\ NoFitter
    /\ \E n \in 1..MaxModels :
          /\ \E nin \in [1..n -> 1..2] :
                jmodels = [m \in 1..n |->
                             [parameters |-> [i \in Params |-> 10 * m + i],
                              joint |-> <<>>,
                              n_inputs |-> nin[m]]]
          /\ jkeys \in UNION {[K -> JointLists] : K \in SUBSET (1..n)}
    /\ initvals \in InitValsChoices
    /\ jfitpars = <<>>
    /\ jstate = "absent"
    /\ jraised = "none"
    /\ jop = "none"
    /\ jargs = 0

----------------------------------------------------------------------------
(* Specifications *)

Constructs == \E k \in Kinds : Construct(k)

\* The caller writes any vector, or the vector it has just read.
SetsFitpars ==
    \E fps \in [1..Len(FitparsGet) -> Vals] \cup {FitparsGet} : SetFitpars(fps)

CallStarts == \E inp \in IterInputs : CallStart(inp)

Evaluates == \E fps \in [1..Len(X0(kind)) -> Vals] : Evaluate(fps)

Finishes == \E fps \in [1..Len(X0(kind)) -> Vals] : Finish(fps)

Changes ==
    \/ ChangeEqcons
    \/ ChangeIneqcons
    \/ \E i \in Params : ChangeFixed(i) \/ ChangeTied(i) \/ ChangeBounds(i)

Calls ==
    \/ LinearCall
    \/ CallStarts
    \/ Evaluates
    \/ Finishes

Next == Constructs \/ Calls

\* A fitter built around a model and called on data any number of times.
Spec == Init /\ [][Next]_vars

NextFitpars ==
    \/ Constructs
    \/ GetFitpars
    \/ SetsFitpars

\* A fitter whose fitpars property is read and written directly.
SpecFitpars == Init /\ [][NextFitpars]_vars

NextReuse == Next \/ Changes

\* A fitter reused while the caller changes the constraints between calls.
SpecReuse == Init /\ [][NextReuse]_vars

\* Construction alone, over every model.
SpecConstruct == InitAny /\ [][Constructs]_vars

Derivs == \E p \in [1..Len(X0(kind)) -> Vals] : Deriv(p)

NextDeriv ==
    \/ Construct("NonLinearLSQFitter")
    \/ CallStarts
    \/ Evaluates
    \/ Derivs
    \/ Finishes

\* A NonLinearLSQFitter around a model that has a deriv: leastsq evaluates
\* errorfunc and, after any of these evaluations, dfunc.
SpecDeriv == Init /\ [][NextDeriv]_vars

\* Fit calls on models of every shape.
SpecShapes == InitShapes /\ [][Next]_vars

NextJoint == JointConstruct \/ JointCall

\* A JointFitter built around several models and called on data.
SpecJoint == InitJoint /\ [][NextJoint]_vars

----------------------------------------------------------------------------
(* Properties *)

Categories == {"fixed", "tied", "bounds", "eqcons", "ineqcons"}

\* The constraint categories that are active on the model.
ActiveCategories ==
    {c \in Categories :
        CASE c = "fixed" -> \E i \in Params : fixed[i]
          [] c = "tied" -> \E i \in Params : tied[i]
          [] c = "bounds" -> \E i \in Params : bounds[i] /= Unbounded
          [] c = "eqcons" -> eqcons
          [] c = "ineqcons" -> ineqcons}

\* The active categories the fitter kind k does not support.
Unsupported(k) == ActiveCategories \ constraintsdef[k]

\* The parameters that are fixed or tied; a name that is both counts once.
Excluded == {i \in Params : fixed[i] \/ tied[i]}

\* v lists the entries of full at the positions outside Excluded, in the
\* declared order.
ListsFree(v, full) ==
    \E f \in [1..Len(v) -> Params] :
        /\ \A a \in 1..Len(v), b \in 1..Len(v) : a < b => f[a] < f[b]
        /\ {f[a] : a \in 1..Len(v)} = Params \ Excluded
        /\ \A a \in 1..Len(v) : v[a] = full[f[a]]

\* C1: a constructor handed a model with an active constraint category
\* that its kind does not support fails with UnsupportedConstraintError.
C1_UnsupportedConstraintError ==
    (lastop = "construct" /\ Unsupported(kind) /= {})
        => (state = "failed" /\ raised = "UnsupportedConstraintError")

\* The getter half of C2: the vector the getter returns has one entry per
\* parameter that is neither fixed nor tied, in the declared order.
C2_GetterReduces ==
    lastop = "get" =>
        /\ Len(io) = NumParams - Cardinality(Excluded)
        /\ ListsFree(io, parameters)

C3_IdentityWithoutFixedTied ==
    Excluded = {} =>
        /\ (lastop = "get" => io = parameters)
        /\ (lastop = "set" => (raised = "none" /\ parameters = io))

\* C4: no step of a fit call (an evaluation by the solver, the final
\* write-back, the write-back of the linear solve) changes the value of a
\* parameter marked fixed.
C4_FixedUnchanged ==
    [][\A i \in Params :
          fixed[i] => (i \in DOMAIN parameters' /\ parameters'[i] = parameters[i])]_vars

\* A fit call has returned with a fixed parameter at its initial value,
\* while the solver proposed another value for a free parameter and it
\* was stored.
C4_Witness ==
    /\ lastop \in {"finish", "call"}
    /\ raised = "none"
    /\ \E i \in Params : fixed[i] /\ parameters[i] = InitialValue(i)
    /\ \E j \in Params \ Excluded : parameters[j] /= InitialValue(j)

\* C5: in NonLinearLSQFitter with no fixed or tied parameter, after every
\* write-back of a proposed vector each bounded parameter lies within its
\* bounds: a proposal below low is stored as low, one above high as high.
C5_ClampedIntoBounds ==
    (/\ kind = "NonLinearLSQFitter"
     /\ lastop \in {"eval", "finish"}
     /\ Excluded = {})
        => \A i \in Params :
              bounds[i] /= Unbounded =>
                /\ bounds[i][1] <= parameters[i]
                /\ parameters[i] <= bounds[i][2]
                /\ (io[i] < bounds[i][1] => parameters[i] = bounds[i][1])
                /\ (io[i] > bounds[i][2] => parameters[i] = bounds[i][2])

NotJoint(mdl) ==
    LET F[i \in 0..Len(mdl.parameters)] ==
            IF i = 0 THEN <<>>
            ELSE IF \E k \in 1..Len(mdl.joint) : mdl.joint[k] = i THEN F[i - 1]
            ELSE Append(F[i - 1], mdl.parameters[i])
    IN F[Len(mdl.parameters)]

\* The flat layout: the concatenation of NotJoint over the models from m on.
RECURSIVE Layout(_, _)
Layout(models, m) ==
    IF m > Len(models) THEN <<>>
    ELSE NotJoint(models[m]) \o Layout(models, m + 1)

\* C7: the flat vector built at construction is the shared initial values
\* followed, in model order, by each model's parameters without exactly
\* the joint ones, in the declared order.
C7_FlatVectorLayout ==
    (jop = "construct" /\ jstate = "ready")
        => jfitpars = initvals \o Layout(jmodels, 1)

\* The number of entries of the flat vector before model m's segment.
Offset(m) ==
    LET S[k \in 0..Len(jmodels)] ==
            IF k = 0 THEN Len(initvals)
            ELSE S[k - 1] + Len(jmodels[k].parameters) - Len(jmodels[k].joint)
    IN S[m - 1]

\* C8: after a call every model holds the vector rebuilt from the flat
\* vector (the i-th shared value at its i-th joint name, its own segment
\* at the other positions in order), a joint parameter has one value in
\* all the models that share it, and the flat vector is used up exactly.
C8_RebuiltFromFlatVector ==
    (jop = "call" /\ jraised = "none") =>
        /\ \A m \in DOMAIN jmodels :
              LET mdl == jmodels[m]
                  free == {i \in Params : \A k \in 1..Len(mdl.joint) : mdl.joint[k] /= i}
              IN /\ Len(mdl.parameters) = NumParams
                 /\ \A k \in 1..Len(mdl.joint) :
                       mdl.parameters[mdl.joint[k]] = jfitpars[k]
                 /\ \A i \in free :
                       mdl.parameters[i] =
                          jfitpars[Offset(m) + Cardinality({h \in free : h <= i})]
        /\ \A a \in DOMAIN jkeys, b \in DOMAIN jkeys :
              \A k \in 1..Len(initvals) :
                 jmodels[a].parameters[jmodels[a].joint[k]]
                    = jmodels[b].parameters[jmodels[b].joint[k]]
        /\ Len(jfitpars) = Offset(Len(jmodels) + 1)

\* C9: a call passes the argument-count check exactly when it has one
\* argument per input of every model and one more per model.
C9_ArgumentCount ==
    jop = "call" => (jraised = "none" <=> jargs = SumArgs)

\* C10: no fit call returns normally while the model holds an active
\* constraint of a category the fitter kind does not support.
C10_NoCallWithUnsupported ==
    (lastop \in {"call", "finish"} /\ raised = "none")
        => Unsupported(kind) = {}

\* The call the step makes fails one of the preconditions: the shapes of
\* the inputs and the target disagree, z is missing for a model of two
\* inputs, a single data set is fitted to a model with param_dim > 1
\* (LinearLSQFitter), param_dim /= 1 (NonLinearLSQFitter, SLSQPFitter).
C11_PreconditionFails ==
    \/ /\ lastop' = "call"
       /\ \/ ~inputs'.shapeOK
          \/ n_inputs = 2 /\ ~inputs'.z
          \/ inputs'.nsets = 0 /\ param_dim > 1
    \/ /\ lastop' = "start"
       /\ \/ ~inputs'.shapeOK
          \/ param_dim /= 1

\* C11: a fit call that fails a precondition raises before the solver is
\* invoked and leaves the model's parameters, param_dim and domain and the
\* fitter's fit_info as they were before the call.
C11_FailedCallChangesNothing ==
    [][C11_PreconditionFails
          => /\ raised' /= "none"
             /\ ~solver'
             /\ UNCHANGED <<parameters, param_dim, domain, fit_info>>]_vars

\* C12: the wrapped Jacobian is evaluated at the model's current full
\* parameter vector and returns the columns of the parameters that are
\* neither fixed nor tied, in the declared order: as many columns as the
\* reduced vector has entries, column j belonging to reduced entry j.
C12_WrappedJacobian ==
    lastop = "deriv" =>
        /\ raised = "none"
        /\ Len(jac) = NumParams - Cardinality(Excluded)
        /\ \E f \in [1..Len(jac) -> Params] :
              /\ \A a \in 1..Len(jac), b \in 1..Len(jac) : a < b => f[a] < f[b]
              /\ {f[a] : a \in 1..Len(jac)} = Params \ Excluded
              /\ \A a \in 1..Len(jac) :
                    jac[a].col = f[a] /\ jac[a].at = parameters

\* C13: in every SLSQPFitter call the initial vector handed to the solver
\* is the reduced vector, the bounds list handed to the solver has one
\* entry per entry of that vector in the same order, and every vector the
\* objective function receives has the length the fitpars setter expects.
C13_SolverVectorsReduced ==
    kind = "SLSQPFitter" =>
        /\ (lastop = "start" /\ raised = "none") =>
              /\ Len(io) = NumParams - Cardinality(Excluded)
              /\ ListsFree(io, parameters)
              /\ Len(SolverBounds) = Len(io)
              /\ ListsFree(SolverBounds, bounds)
        /\ lastop = "eval" => Len(io) = Len(FitparsGet)

\* The free parameters that have a bound set.
FreeBounded == {j \in Params \ Excluded : bounds[j] /= Unbounded}

\* C14: in NonLinearLSQFitter with a fixed or tied parameter and a free
\* bounded one, every write-back of a proposed vector takes a vector
\* without the fixed/tied entries, leaves the fixed/tied parameters as they
\* were, and stores every free bounded parameter within its [low, high].
C14_ClampedBesideFixedTied ==
    [][(/\ kind = "NonLinearLSQFitter"
        /\ lastop' \in {"eval", "finish"}
        /\ raised' = "none"
        /\ Excluded /= {}
        /\ FreeBounded /= {})
          => /\ Len(io') = NumParams - Cardinality(Excluded)
             /\ \A i \in Excluded : parameters'[i] = parameters[i]
             /\ \A j \in FreeBounded :
                   /\ bounds[j][1] <= parameters'[j]
                   /\ parameters'[j] <= bounds[j][2]]_vars

\* C15: in a LinearLSQFitter call that reaches the solver, on a model with
\* any number of fixed parameters (and no tied one, which this fitter does
\* not support), the conditioning warning is emitted exactly when the
\* reported rank is less than the model's order; with or without it the
\* call returns, the model holds the fitted coefficients at its free
\* parameters and fit_info holds the rank the solver reported.
C15_ConditioningWarning ==
    (kind = "LinearLSQFitter" /\ lastop = "call" /\ solver /\ ~AnyTied) =>
        /\ fit_info.rank \in Ranks(NumColumns)
        /\ warned = 1 <=> fit_info.rank < Order
        /\ raised = "none"
        /\ Len(io) = NumParams - Cardinality(Excluded)
        /\ ListsFree(io, parameters)

====
